---- MODULE Spec2Model ----
(***************************************************************************)
(* Level Retest Scanner (src/app.py): the volatility estimator atr, the    *)
(* pattern scanner find_breakout_retests and the sidebar that feeds it.    *)
(*                                                                         *)
(* Numbers.  Prices are integers in units of 0.01.  A pandas/Python float  *)
(* is a record [nan, num, den] (an exact fraction num/den, den > 0, or     *)
(* NaN); the comparisons are exact, so float rounding is not modelled.     *)
(* tolerance_pct is held in units of 1/TolScale, takeoff_pct in units of   *)
(* 1/TakeoffScale and atr_mult in units of 1/MultScale, the grids of the   *)
(* three sliders.  Positions are 0-based as in the source: a series is a   *)
(* function on 0..N-1.                                                     *)
(***************************************************************************)
EXTENDS Integers, Sequences, FiniteSets, TLC

VARIABLES df, level, tolerance_pct, max_retest_window, takeoff_window,
          takeoff_pct, use_atr, atr_mult,
          pc, atr_n, a, i, results, opened, reads

vars == <<df, level, tolerance_pct, max_retest_window, takeoff_window,
          takeoff_pct, use_atr, atr_mult, pc, atr_n, a, i, results, opened, reads>>

config == <<level, tolerance_pct, max_retest_window, takeoff_window,
            takeoff_pct, use_atr, atr_mult>>

scanstate == <<atr_n, a, i, results, opened, reads>>

(***************************************************************************)
(* Bounds and input sets                                                   *)
(***************************************************************************)
MaxBars == 6

MaxAtrWindow == 3

TolScale == 10000

TakeoffScale == 1000

MultScale == 10

AtrWindow == 14

MinWindow == 1

NoneIdx == -1

\* The bars a series is drawn from (Low, High, Close), around a level of 10000
\* with its tolerance band 9990..10010 and its percentage threshold 10050.
\* Fail touches the band and closes below the level (Scenario B's bar 2).
Fail == [Low |-> 9990, High |-> 10005, Close |-> 9980]

\* Break touches the band and closes above the threshold.
Break == [Low |-> 9900, High |-> 10150, Close |-> 10100]

\* Retest touches the band and closes on the level itself.
Retest == [Low |-> 9995, High |-> 10020, Close |-> 10000]

\* Takeoff stays above the band and closes on the threshold itself.
Takeoff == [Low |-> 10020, High |-> 10080, Close |-> 10050]

BarTypes == {Fail, Break, Retest, Takeoff}

\* Scenario A and Scenario B of the specification, bar for bar
BelowA == [Low |-> 9850, High |-> 9950, Close |-> 9900]

RetestA == [Low |-> 9990, High |-> 10005, Close |-> 10020]

TakeoffA == [Low |-> 10030, High |-> 10080, Close |-> 10060]

ZeroBased(s) == [k \in 0..(Len(s) - 1) |-> s[k + 1]]

ScenarioA == ZeroBased(<<BelowA, Break, RetestA, TakeoffA>>)

ScenarioB == ZeroBased(<<BelowA, Break, Fail, TakeoffA>>)

Series(maxlen) == UNION {[0..(n - 1) -> BarTypes] : n \in 0..maxlen}

Levels == {10000}

Tolerances == {10}

Windows == {1, 20}

TakeoffPcts == {5, 10}

AtrMults == {5}

(***************************************************************************)
(* Floats                                                                  *)
(***************************************************************************)
NaN == [nan |-> TRUE, num |-> 0, den |-> 1]

Frac(p, q) == [nan |-> FALSE, num |-> p, den |-> q]

Num(x) == Frac(x, 1)

FAdd(x, y) == IF x.nan \/ y.nan THEN NaN
              ELSE Frac(x.num * y.den + y.num * x.den, x.den * y.den)

FSub(x, y) == IF x.nan \/ y.nan THEN NaN
              ELSE Frac(x.num * y.den - y.num * x.den, x.den * y.den)

FMul(x, y) == IF x.nan \/ y.nan THEN NaN ELSE Frac(x.num * y.num, x.den * y.den)

\* x / y for a positive or negative y; y = 0 is not reached with positive prices
FDiv(x, y) == IF x.nan \/ y.nan THEN NaN
              ELSE IF y.num > 0 THEN Frac(x.num * y.den, x.den * y.num)
              ELSE Frac(-(x.num * y.den), -(x.den * y.num))

FAbs(x) == IF x.nan THEN NaN ELSE Frac(IF x.num < 0 THEN -x.num ELSE x.num, x.den)

\* every comparison with NaN is false
FLt(x, y) == ~x.nan /\ ~y.nan /\ x.num * y.den < y.num * x.den

FLe(x, y) == ~x.nan /\ ~y.nan /\ x.num * y.den <= y.num * x.den

FGe(x, y) == FLe(y, x)

FEq(x, y) == ~x.nan /\ ~y.nan /\ x.num * y.den = y.num * x.den

\* Python's max(x, y): y only when y > x
PyMax(x, y) == IF FLt(x, y) THEN y ELSE x

Min2(x, y) == IF x <= y THEN x ELSE y

Max2(x, y) == IF x >= y THEN x ELSE y

(***************************************************************************)
(* The data frame                                                          *)
(***************************************************************************)
\* len(df)
Len0(d) == Cardinality(DOMAIN d)

\* df.index[k]: strictly increasing timestamps, one bar an hour
DfIndex(k) == 3600 * (k + 1)

\* iloc accepts -len..len-1 and raises IndexError outside
IlocOk(d, k) == -Len0(d) <= k /\ k < Len0(d)

\* .iloc[k]: a negative position counts from the end
Iloc(d, k) == d[IF k < 0 THEN Len0(d) + k ELSE k]

(***************************************************************************)
(* atr                                                                     *)
(***************************************************************************)
\* close.shift(1): NaN in front
PrevClose(d, k) == IF k = 0 THEN NaN ELSE Num(d[k - 1].Close)

\* the row maximum without skipna: one NaN cell makes the row NaN
RowMaxPropagate(x, y, z) ==
    IF x.nan \/ y.nan \/ z.nan THEN NaN
    ELSE LET m2(u, v) == IF FLt(u, v) THEN v ELSE u IN m2(m2(x, y), z)

\* DataFrame.max(axis=1) of three columns: NaN cells are skipped
RowMax(x, y, z) ==
    LET m2(u, v) == IF u.nan THEN v ELSE IF v.nan THEN u ELSE IF FLt(u, v) THEN v ELSE u
    IN  m2(m2(x, y), z)

TrueRange(d, k) ==
    LET high == Num(d[k].High)
        low == Num(d[k].Low)
        prev_close == PrevClose(d, k)
    IN  RowMax(FAbs(FSub(high, low)), FAbs(FSub(high, prev_close)),
               FAbs(FSub(low, prev_close)))

RECURSIVE FSum(_, _, _)
\* the sum of the non-NaN cells of s[lo..hi]
FSum(s, lo, hi) ==
    IF lo > hi THEN Num(0)
    ELSE IF s[hi].nan THEN FSum(s, lo, hi - 1)
    ELSE FAdd(FSum(s, lo, hi - 1), s[hi])

\* Series.rolling(n, min_periods).mean()
RollingMean(s, n, min_periods) ==
    [k \in DOMAIN s |->
        LET lo == Max2(0, k - n + 1)
            obs == Cardinality({m \in lo..k : ~s[m].nan})
        IN  IF obs >= min_periods /\ obs > 0
            THEN FDiv(FSum(s, lo, k), Num(obs))
            ELSE NaN]

\* rolling(n), whose min_periods defaults to n
atrFullWindowOnly(d, n) == RollingMean([k \in DOMAIN d |-> TrueRange(d, k)], n, n)

atr(d, n) == RollingMean([k \in DOMAIN d |-> TrueRange(d, k)], n, 1)

(***************************************************************************)
(* find_breakout_retests                                                   *)
(***************************************************************************)
\* close[b-1] <= level <= close[b]: a close that sits on the level also "crosses"
IsBreakoutFromAtLevel(b) ==
    Iloc(df, b - 1).Close <= level /\ level <= Iloc(df, b).Close

\* close.iloc[i-1] < level <= close.iloc[i], at i = b
IsBreakout(b) ==
    Iloc(df, b - 1).Close < level /\ level <= Iloc(df, b).Close

\* the positions the breakout test reads (the chained comparison short-circuits)
BreakoutReads(b) ==
    {b - 1} \cup (IF Iloc(df, b - 1).Close < level THEN {b} ELSE {})

\* level * (1 + tolerance_pct)
tol_up == FMul(Num(level), FAdd(Num(1), Frac(tolerance_pct, TolScale)))

\* level * (1 - tolerance_pct)
tol_dn == FMul(Num(level), FSub(Num(1), Frac(tolerance_pct, TolScale)))

\* the zone test alone, without the close that confirms the hold
RetestHitTouchOnly(j) ==
    FLe(Num(Iloc(df, j).Low), tol_up) /\ FGe(Num(Iloc(df, j).High), tol_dn)

\* low <= tol_up and high >= tol_dn, then close >= level
RetestHit(j) ==
    /\ FLe(Num(Iloc(df, j).Low), tol_up) /\ FGe(Num(Iloc(df, j).High), tol_dn)
    /\ Iloc(df, j).Close >= level

\* breakout_idx + max_retest_window, not clamped to the last bar
EndRtUnclamped(breakout_idx) == breakout_idx + max_retest_window

\* a window one bar too long
EndRtOneMore(breakout_idx) == Min2(Len0(df) - 1, breakout_idx + max_retest_window + 1)

\* end_rt = min(len(df)-1, breakout_idx + max_retest_window)
EndRt(breakout_idx) == Min2(Len0(df) - 1, breakout_idx + max_retest_window)

\* end_to = min(len(df)-1, retest_idx + takeoff_window)
EndTo(retest_idx) == Min2(Len0(df) - 1, retest_idx + takeoff_window)

\* the gate taken as a replacement of the percentage threshold, not a second floor
ThresholdGateOnly(k, gate) ==
    IF gate THEN FAdd(Num(level), FMul(Frac(atr_mult, MultScale), Iloc(a, k)))
    ELSE FMul(Num(level), FAdd(Num(1), Frac(takeoff_pct, TakeoffScale)))

\* min in place of max: the lower of the two floors
ThresholdMin(k, gate) ==
    LET threshold == FMul(Num(level), FAdd(Num(1), Frac(takeoff_pct, TakeoffScale)))
        gated == FAdd(Num(level), FMul(Frac(atr_mult, MultScale), Iloc(a, k)))
    IN  IF gate THEN (IF FLt(gated, threshold) THEN gated ELSE threshold) ELSE threshold

\* threshold = level * (1 + takeoff_pct); max(threshold, level + atr_mult * a[k]) if use_atr
Threshold(k, gate) ==
    LET threshold == FMul(Num(level), FAdd(Num(1), Frac(takeoff_pct, TakeoffScale)))
    IN  IF gate
        THEN PyMax(threshold, FAdd(Num(level), FMul(Frac(atr_mult, MultScale), Iloc(a, k))))
        ELSE threshold

TakeoffHit(k, gate) == FGe(Num(Iloc(df, k).Close), Threshold(k, gate))

RECURSIVE RetestLoop(_, _, _)
\* for j in range(breakout_idx+1, end_rt+1): the first hit, the positions read,
\* and whether a read fell outside the frame
RetestLoop(j, end_rt, seen) ==
    IF j > end_rt THEN [idx |-> NoneIdx, reads |-> seen, raised |-> FALSE]
    ELSE IF ~IlocOk(df, j) THEN [idx |-> NoneIdx, reads |-> seen \cup {j}, raised |-> TRUE]
    ELSE IF RetestHit(j) THEN [idx |-> j, reads |-> seen \cup {j}, raised |-> FALSE]
    ELSE RetestLoop(j + 1, end_rt, seen \cup {j})

RECURSIVE TakeoffLoop(_, _, _, _)
\* for k in range(retest_idx+1, end_to+1)
TakeoffLoop(k, end_to, gate, seen) ==
    IF k > end_to THEN [idx |-> NoneIdx, reads |-> seen, raised |-> FALSE]
    ELSE IF ~IlocOk(df, k) THEN [idx |-> NoneIdx, reads |-> seen \cup {k}, raised |-> TRUE]
    ELSE IF TakeoffHit(k, gate) THEN [idx |-> k, reads |-> seen \cup {k}, raised |-> FALSE]
    ELSE TakeoffLoop(k + 1, end_to, gate, seen \cup {k})

\* an event whose bar counts are both taken from the breakout
MakeEventFromBreakout(breakout_idx, retest_idx, takeoff_idx) ==
    LET ret == FSub(FDiv(Num(Iloc(df, takeoff_idx).Close), Num(level)), Num(1))
    IN  [breakout_idx |-> breakout_idx, retest_idx |-> retest_idx,
         takeoff_idx |-> takeoff_idx,
         breakout_time |-> DfIndex(breakout_idx),
         retest_time |-> DfIndex(retest_idx),
         takeoff_time |-> DfIndex(takeoff_idx),
         level |-> level,
         close_at_takeoff |-> Iloc(df, takeoff_idx).Close,
         return_from_level_pct |-> FMul(ret, Num(100)),
         bars_to_retest |-> retest_idx - breakout_idx,
         bars_to_takeoff |-> takeoff_idx - breakout_idx,
         atr_at_takeoff |-> Iloc(a, takeoff_idx)]

\* the row appended to results; the three positions are kept beside the times
MakeEvent(breakout_idx, retest_idx, takeoff_idx) ==
    LET ret == FSub(FDiv(Num(Iloc(df, takeoff_idx).Close), Num(level)), Num(1))
    IN  [breakout_idx |-> breakout_idx, retest_idx |-> retest_idx,
         takeoff_idx |-> takeoff_idx,
         breakout_time |-> DfIndex(breakout_idx),
         retest_time |-> DfIndex(retest_idx),
         takeoff_time |-> DfIndex(takeoff_idx),
         level |-> level,
         close_at_takeoff |-> Iloc(df, takeoff_idx).Close,
         return_from_level_pct |-> FMul(ret, Num(100)),
         bars_to_retest |-> retest_idx - breakout_idx,
         bars_to_takeoff |-> takeoff_idx - retest_idx,
         atr_at_takeoff |-> Iloc(a, takeoff_idx)]

\* the body of the outer loop for a breakout at i: what becomes of the candidate
Candidate(breakout_idx, gate) ==
    LET rt == RetestLoop(breakout_idx + 1, EndRt(breakout_idx), {})
    IN  IF rt.idx = NoneIdx
        THEN [state |-> "ABANDONED", stage |-> "retest", retest_idx |-> NoneIdx,
              takeoff_idx |-> NoneIdx, reads |-> rt.reads, raised |-> rt.raised]
        ELSE LET to == TakeoffLoop(rt.idx + 1, EndTo(rt.idx), gate, {})
             IN  IF to.idx = NoneIdx
                 THEN [state |-> "ABANDONED", stage |-> "takeoff", retest_idx |-> rt.idx,
                       takeoff_idx |-> NoneIdx, reads |-> rt.reads \cup to.reads,
                       raised |-> to.raised]
                 ELSE [state |-> "TAKEOFF_FOUND", stage |-> "takeoff",
                       retest_idx |-> rt.idx, takeoff_idx |-> to.idx,
                       reads |-> rt.reads \cup to.reads, raised |-> FALSE]

(***************************************************************************)
(* The scan as a state machine: one step per pass of the outer loop        *)
(***************************************************************************)
\* lines 44-49: a = atr(df, 14); results = []; the loop starts at i = 1
Call ==
    /\ pc = "idle"
    /\ a' = atr(df, AtrWindow)
    /\ atr_n' = AtrWindow
    /\ results' = <<>>
    /\ opened' = {}
    /\ reads' = {}
    /\ i' = 1
    /\ pc' = "scan"
    /\ UNCHANGED <<df, config>>

\* a pass whose bar pair is no breakout
NoBreakout ==
    /\ pc = "scan" /\ i < Len0(df)
    /\ ~IsBreakout(i)
    /\ reads' = reads \cup BreakoutReads(i)
    /\ i' = i + 1
    /\ UNCHANGED <<df, config, pc, atr_n, a, results, opened>>

\* a breakout with no retest in its window: continue
RetestAbandoned ==
    /\ pc = "scan" /\ i < Len0(df)
    /\ IsBreakout(i)
    /\ LET c == Candidate(i, use_atr)
       IN  /\ c.state = "ABANDONED" /\ c.stage = "retest"
           /\ reads' = reads \cup BreakoutReads(i) \cup c.reads
           /\ pc' = IF c.raised THEN "raised" ELSE "scan"
    /\ opened' = opened \cup {i}
    /\ i' = i + 1
    /\ UNCHANGED <<df, config, atr_n, a, results>>

\* a breakout and a retest with no takeoff in the window after it: continue
TakeoffAbandoned ==
    /\ pc = "scan" /\ i < Len0(df)
    /\ IsBreakout(i)
    /\ LET c == Candidate(i, use_atr)
       IN  /\ c.state = "ABANDONED" /\ c.stage = "takeoff"
           /\ reads' = reads \cup BreakoutReads(i) \cup c.reads
           /\ pc' = IF c.raised THEN "raised" ELSE "scan"
    /\ opened' = opened \cup {i}
    /\ i' = i + 1
    /\ UNCHANGED <<df, config, atr_n, a, results>>

\* an append that drops an event starting before the last one's takeoff
EmitUnlessOverlapping ==
    /\ pc = "scan" /\ i < Len0(df)
    /\ IsBreakout(i)
    /\ LET c == Candidate(i, use_atr)
       IN  /\ c.state = "TAKEOFF_FOUND"
           /\ reads' = reads \cup BreakoutReads(i) \cup c.reads
                             \cup {i, c.retest_idx, c.takeoff_idx}
           /\ results' = IF Len(results) > 0 /\ results[Len(results)].takeoff_idx >= i
                         THEN results
                         ELSE Append(results, MakeEvent(i, c.retest_idx, c.takeoff_idx))
    /\ opened' = opened \cup {i}
    /\ i' = i + 1
    /\ UNCHANGED <<df, config, pc, atr_n, a>>

\* breakout, retest and takeoff: results.append({...})
Emit ==
    /\ pc = "scan" /\ i < Len0(df)
    /\ IsBreakout(i)
    /\ LET c == Candidate(i, use_atr)
       IN  /\ c.state = "TAKEOFF_FOUND"
           /\ reads' = reads \cup BreakoutReads(i) \cup c.reads
                             \cup {i, c.retest_idx, c.takeoff_idx}
           /\ results' = Append(results, MakeEvent(i, c.retest_idx, c.takeoff_idx))
    /\ opened' = opened \cup {i}
    /\ i' = i + 1
    /\ UNCHANGED <<df, config, pc, atr_n, a>>

\* range(1, len(df)) is exhausted: return pd.DataFrame(results)
Return ==
    /\ pc = "scan" /\ i >= Len0(df)
    /\ pc' = "done"
    /\ UNCHANGED <<df, config, scanstate>>

Init ==
    /\ df \in Series(MaxBars) \cup {ScenarioA, ScenarioB}
    /\ level \in Levels
    /\ tolerance_pct \in Tolerances
    /\ max_retest_window \in Windows
    /\ takeoff_window \in Windows
    /\ takeoff_pct \in TakeoffPcts
    /\ use_atr \in BOOLEAN
    /\ atr_mult \in AtrMults
    /\ pc = "idle"
    /\ atr_n = 0
    /\ a = <<>>
    /\ i = 0
    /\ results = <<>>
    /\ opened = {}
    /\ reads = {}

Next == Call \/ NoBreakout \/ RetestAbandoned \/ TakeoffAbandoned \/ Emit \/ Return

Spec == Init /\ [][Next]_vars

(***************************************************************************)
(* atr on its own, for any window                                          *)
(***************************************************************************)
\* a call atr(df, n)
AtrCall ==
    /\ pc = "idle"
    /\ \E n \in (1..MaxAtrWindow) \cup {AtrWindow} :
          /\ a' = atr(df, n)
          /\ atr_n' = n
    /\ pc' = "done"
    /\ UNCHANGED <<df, config, i, results, opened, reads>>

InitAtr ==
    /\ df \in Series(MaxBars) \cup {ScenarioA, ScenarioB}
    /\ level = 10000 /\ tolerance_pct = 10 /\ max_retest_window = 20
    /\ takeoff_window = 20 /\ takeoff_pct = 5 /\ use_atr = TRUE /\ atr_mult = 10
    /\ pc = "idle"
    /\ atr_n = 0
    /\ a = <<>>
    /\ i = 0
    /\ results = <<>>
    /\ opened = {}
    /\ reads = {}

NextAtr == AtrCall

SpecAtr == InitAtr /\ [][NextAtr]_vars

(***************************************************************************)
(* The sidebar and the Run Scan button                                     *)
(***************************************************************************)
\* what a user may try to enter into each widget
LevelInputs == {-10000, 0, 10000}

TolInputs == {0, 1, 50, 51}

WindowInputs == {-1, 0, 1, 2}

TakeoffPctInputs == {0, 1, 30, 31}

AtrMultInputs == {4, 5, 30, 31}

\* what fetch_data returned
Fetched == {ScenarioA,
            ZeroBased(<<Fail, Break, Fail, Break, Break, Takeoff>>)}

\* a widget change reruns the script: the last scan's output is gone
Rerun ==
    /\ pc \in {"idle", "done"}
    /\ pc' = "idle"
    /\ atr_n' = 0 /\ a' = <<>> /\ i' = 0 /\ results' = <<>> /\ opened' = {} /\ reads' = {}
    /\ UNCHANGED df

\* st.number_input("Key Level", value=60000.0, step=100.0): no min_value
SetLevel ==
    /\ \E v \in LevelInputs : level' = v
    /\ Rerun
    /\ UNCHANGED <<tolerance_pct, max_retest_window, takeoff_window, takeoff_pct,
                   use_atr, atr_mult>>

\* st.slider("Retest tolerance (%)", min_value=0.01, max_value=0.50) / 100.0
SetTolerance ==
    /\ \E v \in TolInputs : 1 <= v /\ v <= 50 /\ tolerance_pct' = v
    /\ Rerun
    /\ UNCHANGED <<level, max_retest_window, takeoff_window, takeoff_pct,
                   use_atr, atr_mult>>

\* st.number_input("Max bars to find retest", value=20, min_value=1, step=1)
SetMaxRetestWindow ==
    /\ \E v \in WindowInputs : MinWindow <= v /\ max_retest_window' = v
    /\ Rerun
    /\ UNCHANGED <<level, tolerance_pct, takeoff_window, takeoff_pct, use_atr, atr_mult>>

\* st.number_input("Max bars to confirm takeoff", value=20, min_value=1, step=1)
SetTakeoffWindow ==
    /\ \E v \in WindowInputs : MinWindow <= v /\ takeoff_window' = v
    /\ Rerun
    /\ UNCHANGED <<level, tolerance_pct, max_retest_window, takeoff_pct, use_atr,
                   atr_mult>>

\* st.slider("Min takeoff (% above level)", min_value=0.10, max_value=3.0) / 100.0
SetTakeoffPct ==
    /\ \E v \in TakeoffPctInputs : 1 <= v /\ v <= 30 /\ takeoff_pct' = v
    /\ Rerun
    /\ UNCHANGED <<level, tolerance_pct, max_retest_window, takeoff_window, use_atr,
                   atr_mult>>

\* st.checkbox("Also require ATR-based thrust", value=True)
ToggleAtr ==
    /\ use_atr' = ~use_atr
    /\ Rerun
    /\ UNCHANGED <<level, tolerance_pct, max_retest_window, takeoff_window,
                   takeoff_pct, atr_mult>>

\* st.slider("ATR multiplier", min_value=0.5, max_value=3.0, value=1.0, step=0.1)
SetAtrMult ==
    /\ \E v \in AtrMultInputs : 5 <= v /\ v <= 30 /\ atr_mult' = v
    /\ Rerun
    /\ UNCHANGED <<level, tolerance_pct, max_retest_window, takeoff_window,
                   takeoff_pct, use_atr>>

\* the widgets' default values; run_btn not yet pressed
InitUI ==
    /\ df \in Fetched
    /\ level = 6000000
    /\ tolerance_pct = 10
    /\ max_retest_window = 20
    /\ takeoff_window = 20
    /\ takeoff_pct = 5
    /\ use_atr = TRUE
    /\ atr_mult = 10
    /\ pc = "idle"
    /\ atr_n = 0
    /\ a = <<>>
    /\ i = 0
    /\ results = <<>>
    /\ opened = {}
    /\ reads = {}

\* if run_btn: results = find_breakout_retests(df, level, ...)
NextUI ==
    \/ SetLevel \/ SetTolerance \/ SetMaxRetestWindow \/ SetTakeoffWindow
    \/ SetTakeoffPct \/ ToggleAtr \/ SetAtrMult
    \/ Call \/ NoBreakout \/ RetestAbandoned \/ TakeoffAbandoned \/ Emit \/ Return

SpecUI == InitUI /\ [][NextUI]_vars

(***************************************************************************)
(* The specification's terms, stated on the inputs alone                   *)
(***************************************************************************)
N == Len0(df)

Events == {results[m] : m \in 1..Len(results)}

SetMin(S) == CHOOSE x \in S : \A y \in S : x <= y

\* close[k-1] < level <= close[k]
Crosses(k) == df[k - 1].Close < level /\ level <= df[k].Close

\* low <= level(1+tolerance) and high >= level(1-tolerance)
InBand(j) ==
    /\ df[j].Low * TolScale <= level * (TolScale + tolerance_pct)
    /\ df[j].High * TolScale >= level * (TolScale - tolerance_pct)

Qualifies(j) == InBand(j) /\ df[j].Close >= level

RetestWindowOf(b) == {j \in (b + 1)..(b + max_retest_window) : j <= N - 1}

TakeoffWindowOf(r) == {k \in (r + 1)..(r + takeoff_window) : k <= N - 1}

\* close >= level(1+takeoff_pct)
PctMet(k) == df[k].Close * TakeoffScale >= level * (TakeoffScale + takeoff_pct)

\* close >= level + atr_multiplier * VolatilitySeries[k]
GateMet(k) ==
    /\ ~a[k].nan
    /\ (df[k].Close - level) * MultScale * a[k].den >= atr_mult * a[k].num

\* close >= threshold(k), the larger of the two floors when the gate is on
ThresholdMet(k, gate) == PctMet(k) /\ (gate => GateMet(k))

FirstRetest(b) ==
    LET Q == {j \in RetestWindowOf(b) : Qualifies(j)}
    IN  IF Q = {} THEN NoneIdx ELSE SetMin(Q)

FirstTakeoff(r, gate) ==
    LET Q == {k \in TakeoffWindowOf(r) : ThresholdMet(k, gate)}
    IN  IF Q = {} THEN NoneIdx ELSE SetMin(Q)

Matches(b, gate) ==
    /\ Crosses(b)
    /\ FirstRetest(b) # NoneIdx
    /\ FirstTakeoff(FirstRetest(b), gate) # NoneIdx

Scanning == pc \in {"scan", "done", "raised"}

(***************************************************************************)
(* Claims                                                                  *)
(***************************************************************************)
\* C1: every emitted Event has breakout_idx < retest_idx <= breakout_idx +
\* max_retest_window and retest_idx < takeoff_idx <= retest_idx + takeoff_window,
\* that is 1 <= bars_to_retest <= max_retest_window and
\* 1 <= bars_to_takeoff <= takeoff_window.
C1_EventWindows ==
    \A e \in Events :
        /\ e.breakout_idx < e.retest_idx
        /\ e.retest_idx <= e.breakout_idx + max_retest_window
        /\ e.retest_idx < e.takeoff_idx
        /\ e.takeoff_idx <= e.retest_idx + takeoff_window
        /\ 1 <= e.bars_to_retest /\ e.bars_to_retest <= max_retest_window
        /\ 1 <= e.bars_to_takeoff /\ e.bars_to_takeoff <= takeoff_window
        /\ e.breakout_time < e.retest_time /\ e.retest_time < e.takeoff_time

\* an Event whose retest and takeoff both sit on the last bar of their windows,
\* in a series that goes on after the takeoff
C1_Witness ==
    /\ pc = "done"
    /\ \E e \in Events :
          /\ e.bars_to_retest = max_retest_window
          /\ e.bars_to_takeoff = takeoff_window
          /\ e.takeoff_idx < N - 1

\* C2: if no index i >= 1 has close[i-1] < level <= close[i] (a series all
\* below the level, an empty series, fewer than 2 bars), no candidate is opened
\* and the event list is empty.
C2_NoCrossNoEvents ==
    (Scanning /\ ~(\E k \in 1..(N - 1) : Crosses(k)))
        => (opened = {} /\ results = <<>>)

\* a finished scan of two or more bars that never cross, though some close
\* sits on the level and some close is above the threshold
C2_Witness ==
    /\ pc = "done" /\ N >= 3
    /\ ~(\E k \in 1..(N - 1) : Crosses(k))
    /\ df[0].Close = level
    /\ \E k \in 1..(N - 1) : PctMet(k)
    /\ results = <<>>

\* C3: the retest bar of every Event satisfies low <= level(1+tolerance),
\* high >= level(1-tolerance) and close >= level, and is the first bar of the
\* retest window to do so; a candidate with no such bar in its window emits no
\* Event, whatever the later closes.
C3_RetestIsFirstHold ==
    /\ \A e \in Events :
          /\ e.retest_idx \in RetestWindowOf(e.breakout_idx)
          /\ Qualifies(e.retest_idx)
          /\ \A j \in (e.breakout_idx + 1)..(e.retest_idx - 1) : ~Qualifies(j)
    /\ \A b \in opened :
          (\A j \in RetestWindowOf(b) : ~Qualifies(j))
              => ~(\E e \in Events : e.breakout_idx = b)

\* Scenario B's shape: the bar after the breakout touches the band and closes
\* below the level, nothing in the window holds, a later close is above the
\* threshold, and the candidate emitted nothing
C3_Witness ==
    /\ pc = "done" /\ ~use_atr
    /\ \E b \in opened :
          /\ b + 2 <= N - 1
          /\ InBand(b + 1) /\ df[b + 1].Close < level
          /\ \A j \in RetestWindowOf(b) : ~Qualifies(j)
          /\ PctMet(b + 2)
          /\ ~(\E e \in Events : e.breakout_idx = b)

\* C4: the takeoff bar of every Event is the first bar of the takeoff window
\* whose close is >= threshold(k): level(1+takeoff_pct) with the gate off, the
\* larger of that and level + atr_multiplier * VolatilitySeries[k] with it on; a
\* candidate whose window holds no such bar emits no Event.
C4_TakeoffIsFirstAboveThreshold ==
    /\ \A e \in Events :
          /\ e.takeoff_idx \in TakeoffWindowOf(e.retest_idx)
          /\ ThresholdMet(e.takeoff_idx, use_atr)
          /\ \A k \in (e.retest_idx + 1)..(e.takeoff_idx - 1) : ~ThresholdMet(k, use_atr)
    /\ \A b \in opened :
          (/\ FirstRetest(b) # NoneIdx
           /\ \A k \in TakeoffWindowOf(FirstRetest(b)) : ~ThresholdMet(k, use_atr))
              => ~(\E e \in Events : e.breakout_idx = b)

\* Scenario D's shape: the gate is on, a bar of the takeoff window clears the
\* percentage floor, the gated threshold is above every close of the window, and
\* the candidate emitted nothing
C4_Witness ==
    /\ pc = "done" /\ use_atr
    /\ \E b \in opened :
          /\ FirstRetest(b) # NoneIdx
          /\ \E k \in TakeoffWindowOf(FirstRetest(b)) : PctMet(k)
          /\ \A k \in TakeoffWindowOf(FirstRetest(b)) : ~GateMet(k)
          /\ ~(\E e \in Events : e.breakout_idx = b)

\* C5: the list holds exactly one Event for each crossing index whose candidate
\* finds a retest in its window and then a takeoff in the window after it, and no
\* other; candidates are decided one by one, none is merged or dropped, and the
\* Events are in strictly increasing breakout order.  Scenario A gives exactly
\* one Event: breakout 1, retest 2, takeoff 3, return 0.6.
C5_OneEventPerMatch ==
    /\ Scanning =>
          /\ {e.breakout_idx : e \in Events}
                = {b \in 1..(N - 1) : b < i /\ Matches(b, use_atr)}
          /\ \A m \in 1..Len(results) :
                /\ results[m].retest_idx = FirstRetest(results[m].breakout_idx)
                /\ results[m].takeoff_idx = FirstTakeoff(results[m].retest_idx, use_atr)
                /\ \A n \in 1..Len(results) :
                      m < n => results[m].breakout_idx < results[n].breakout_idx
    /\ (/\ pc = "done" /\ df = ScenarioA /\ ~use_atr /\ takeoff_pct = 5
        /\ max_retest_window = 20 /\ takeoff_window = 20)
          => /\ Len(results) = 1
             /\ results[1].breakout_idx = 1
             /\ results[1].retest_idx = 2
             /\ results[1].takeoff_idx = 3
             /\ FEq(results[1].return_from_level_pct, Frac(6, 10))

\* two Events that overlap in time: the second breaks out before the first takes off
C5_Witness ==
    /\ pc = "done"
    /\ Len(results) >= 2
    /\ results[2].breakout_idx < results[1].takeoff_idx

\* C6: the fields of every Event follow from its three indices and the inputs:
\* close_at_takeoff = close[takeoff_idx], return_from_level_pct =
\* (close_at_takeoff / level - 1) * 100, bars_to_retest = retest_idx -
\* breakout_idx, bars_to_takeoff = takeoff_idx - retest_idx, atr_at_takeoff =
\* VolatilitySeries[takeoff_idx], level = the level given.
C6_EventFields ==
    \A e \in Events :
        /\ e.close_at_takeoff = df[e.takeoff_idx].Close
        /\ ~e.return_from_level_pct.nan
        /\ e.return_from_level_pct.num * level
              = (e.close_at_takeoff - level) * 100 * e.return_from_level_pct.den
        /\ e.bars_to_retest = e.retest_idx - e.breakout_idx
        /\ e.bars_to_takeoff = e.takeoff_idx - e.retest_idx
        /\ e.atr_at_takeoff = a[e.takeoff_idx]
        /\ e.level = level
        /\ e.breakout_time = DfIndex(e.breakout_idx)
        /\ e.retest_time = DfIndex(e.retest_idx)
        /\ e.takeoff_time = DfIndex(e.takeoff_idx)

\* an Event whose three bars are not adjacent
C6_Witness ==
    /\ pc = "done"
    /\ \E e \in Events : e.bars_to_retest >= 2 /\ e.bars_to_takeoff >= 2

\* C9: every position read during a scan lies in 0..N-1, the windows being
\* clamped to N-1; a breakout or a retest on the last bar abandons the
\* candidate; the scan never raises and returns only after every bar pair was
\* tested; an empty series gives an empty volatility series and an empty event
\* list.
C9_ReadsInRange ==
    /\ reads \subseteq 0..(N - 1)
    /\ pc # "raised"
    /\ pc = "done" => (i >= N /\ opened = {b \in 1..(N - 1) : Crosses(b)})
    /\ N - 1 \in opened => ~(\E e \in Events : e.breakout_idx = N - 1)
    /\ \A b \in opened :
          FirstRetest(b) = N - 1 => ~(\E e \in Events : e.breakout_idx = b)
    /\ (Scanning /\ N = 0) => (DOMAIN a = {} /\ results = <<>>)

\* a finished scan with a breakout on the last bar, which is also the retest of
\* an earlier candidate, both windows reaching past the end of the series
C9_Witness ==
    /\ pc = "done"
    /\ N - 1 \in opened
    /\ \E b \in opened :
          /\ FirstRetest(b) = N - 1
          /\ b + max_retest_window > N - 1
          /\ FirstRetest(b) + takeoff_window > N - 1
    /\ reads = 0..(N - 1)

\* C10: with the gate on, every Event's breakout also gives an Event with the
\* gate off (same bars, level and parameters), with the same retest and a takeoff
\* no later than the gated one.
C10_GateOnlyRemovesOrDelays ==
    (Scanning /\ use_atr) =>
        \A e \in Events :
            LET c == Candidate(e.breakout_idx, FALSE)
            IN  /\ c.state = "TAKEOFF_FOUND"
                /\ c.retest_idx = e.retest_idx
                /\ c.takeoff_idx <= e.takeoff_idx

\* a gated scan with an Event that takes off later than it does ungated
C10_Witness ==
    /\ pc = "done" /\ use_atr
    /\ \E e \in Events :
          /\ Candidate(e.breakout_idx, FALSE).state = "TAKEOFF_FOUND"
          /\ Candidate(e.breakout_idx, FALSE).takeoff_idx < e.takeoff_idx

(***************************************************************************)
(* The volatility estimator, under SpecAtr                                 *)
(***************************************************************************)
AbsInt(x) == IF x < 0 THEN -x ELSE x

\* TR[0] = |high-low|; TR[k] = max(|high-low|, |high-close[k-1]|, |low-close[k-1]|)
TRSpec(k) ==
    IF k = 0 THEN AbsInt(df[0].High - df[0].Low)
    ELSE Max2(AbsInt(df[k].High - df[k].Low),
              Max2(AbsInt(df[k].High - df[k - 1].Close),
                   AbsInt(df[k].Low - df[k - 1].Close)))

RECURSIVE SumTRSpec(_, _)
SumTRSpec(lo, hi) == IF lo > hi THEN 0 ELSE TRSpec(hi) + SumTRSpec(lo, hi - 1)

\* C7: atr(df, W) is as long as the input and its element k is the arithmetic
\* mean of TR[max(0,k-W+1)..k]; every value is defined and >= 0 and element 0
\* is |high[0]-low[0]|.
C7_AtrIsRollingMean ==
    atr_n > 0 =>
        /\ DOMAIN a = DOMAIN df
        /\ \A k \in DOMAIN a :
              LET lo == Max2(0, k - atr_n + 1)
              IN  /\ ~a[k].nan /\ a[k].den > 0 /\ a[k].num >= 0
                  /\ a[k].num * (k - lo + 1) = SumTRSpec(lo, k) * a[k].den
        /\ N > 0 => a[0].num = AbsInt(df[0].High - df[0].Low) * a[0].den

\* a window of 2 over four or more bars: it is short at bar 0 and full from bar
\* 1 on, and some bar's true range comes from the previous close
C7_Witness ==
    /\ pc = "done" /\ atr_n = 2 /\ N >= 4
    /\ \E k \in 1..(N - 1) : TRSpec(k) > AbsInt(df[k].High - df[k].Low)
    /\ \E k \in 2..(N - 1) : TRSpec(k) # TRSpec(k - 1) /\ TRSpec(k - 1) # TRSpec(k - 2)

(***************************************************************************)
(* The caller boundary, under SpecUI                                       *)
(***************************************************************************)
\* C8: find_breakout_retests is never invoked with a non-positive level, window,
\* tolerance or takeoff percentage.
C8_ConfigValidated ==
    Scanning =>
        /\ level > 0
        /\ max_retest_window > 0 /\ takeoff_window > 0
        /\ tolerance_pct > 0 /\ takeoff_pct > 0

====
